---- MODULE Spec2Model ----
(***************************************************************************)
(* A model of src/main.js, the cycloidal-drive generator: the page state   *)
(* (params, kinematics, rotationAngle, view, the input and display         *)
(* elements, the animation-frame queue), one action per event handler, and *)
(* the pure profile function getCycloidPoint.                              *)
(*                                                                         *)
(* Numbers.  A JavaScript number is modelled as a pair <<n, d>>:           *)
(*   d > 0       the rational n/d in lowest terms,                         *)
(*   <<0, 0>>    NaN,   <<1, 0>>  Infinity,   <<-1, 0>>  -Infinity.        *)
(* Arithmetic is exact: the rounding of IEEE doubles and the sign of zero  *)
(* are not modelled.                                                       *)
(*                                                                         *)
(* Text.  The value of an input element is a sequence of one-character     *)
(* strings, which parseFloat and parseInt scan as the language defines.    *)
(*                                                                         *)
(* Not modelled: the pixels of the canvas, drawGrid and updateScaleBar     *)
(* (they write only to the canvas and to the scale-bar elements), the echo *)
(* of R, Zp, rp, e and K1 into their text elements, and the class names    *)
(* and description that setMode writes: elements the script never reads.   *)
(***************************************************************************)
EXTENDS Integers, Sequences, FiniteSets, TLC

VARIABLES
    pc,             \* "load" before the script has run, "run" after
    inputs,         \* inputs.R/Zp/rp/e .value, the raw text of each element
    params,         \* let params
    kinematics,     \* let kinematics: "STD" or "RV"
    rotationAngle,  \* let rotationAngle
    view,           \* let view
    canvas,         \* canvas.width, canvas.height
    displays,       \* displays.ratio/dir .textContent, displays.warn.style.display
    pending,        \* draw callbacks registered for the next animation frame
    frameQueue,     \* draw callbacks the current animation frame still has to run
    frame,          \* the placement the last draw() pass handed to the canvas
    probe,          \* arguments theta, R, Zp, rp, e of a call of getCycloidPoint
    sample          \* the point the call returned

vars == <<pc, inputs, params, kinematics, rotationAngle, view, canvas, displays,
          pending, frameQueue, frame, probe, sample>>

pageVars == <<pc, inputs, params, kinematics, rotationAngle, view, canvas,
              displays, pending, frameQueue, frame>>

-----------------------------------------------------------------------------
(* Numbers *)

NaN == <<0, 0>>
PosInf == <<1, 0>>
NegInf == <<-1, 0>>

Abs(i) == IF i < 0 THEN -i ELSE i

Sgn(i) == IF i < 0 THEN -1 ELSE IF i > 0 THEN 1 ELSE 0

RECURSIVE Gcd(_, _)
Gcd(a, b) == IF b = 0 THEN a ELSE Gcd(b, a % b)

\* <<n, d>> with d >= 0 brought to the canonical form described above.
Norm(n, d) ==
    IF d = 0 THEN <<Sgn(n), 0>>
    ELSE LET g == Gcd(Abs(n), d) IN <<n \div g, d \div g>>

Num(i) == <<i, 1>>

IsNaN(a) == a = NaN

IsFinite(a) == a[2] > 0

Neg(a) == <<-a[1], a[2]>>

Add(a, b) ==
    IF a[2] = 0 /\ b[2] = 0
    THEN (IF a = b THEN a ELSE NaN)
    ELSE IF a[2] = 0 THEN a
    ELSE IF b[2] = 0 THEN b
    ELSE LET g == Gcd(a[2], b[2])
         IN  Norm(a[1] * (b[2] \div g) + b[1] * (a[2] \div g), (a[2] \div g) * b[2])

Sub(a, b) == Add(a, Neg(b))

AbsNum(a) == IF a[1] < 0 THEN Neg(a) ELSE a

\* Factors are cancelled crosswise before multiplying, to keep the integers small.
Mul(a, b) ==
    IF a[2] = 0 \/ b[2] = 0
    THEN Norm(a[1] * b[1], 0)
    ELSE LET g1 == Gcd(Abs(a[1]), b[2])
             g2 == Gcd(Abs(b[1]), a[2])
         IN  Norm((a[1] \div g1) * (b[1] \div g2), (a[2] \div g2) * (b[2] \div g1))

\* 1/a; 1/0 is Infinity, 1/Infinity is 0.
Recip(a) ==
    IF a[1] < 0 THEN <<-a[2], -a[1]>>
    ELSE IF a[1] = 0 /\ a[2] > 0 THEN PosInf
    ELSE <<a[2], a[1]>>

Div(a, b) == Mul(a, Recip(b))

\* n1/d1 < n2/d2 for d1, d2 > 0, by integer parts and then the reciprocals of
\* the fractional parts: no product is formed, so none can overflow.
RECURSIVE FracLt(_, _, _, _)
FracLt(n1, d1, n2, d2) ==
    LET w1 == n1 \div d1
        w2 == n2 \div d2
        r1 == n1 % d1
        r2 == n2 % d2
    IN  IF w1 # w2 THEN w1 < w2
        ELSE IF r2 = 0 THEN FALSE
        ELSE IF r1 = 0 THEN TRUE
        ELSE FracLt(d2, r2, d1, r1)

\* a < b; false when either is NaN.
Lt(a, b) ==
    /\ ~IsNaN(a)
    /\ ~IsNaN(b)
    /\ IF a[2] = 0 \/ b[2] = 0
       THEN (IF a[2] = 0 /\ b[2] = 0 THEN a[1] < b[1]
             ELSE IF a[2] = 0 THEN a[1] < 0
             ELSE b[1] > 0)
       ELSE FracLt(a[1], a[2], b[1], b[2])

Gt(a, b) == Lt(b, a)

Le(a, b) == ~IsNaN(a) /\ ~IsNaN(b) /\ ~Lt(b, a)

Min(a, b) == IF IsNaN(a) \/ IsNaN(b) THEN NaN ELSE IF Lt(b, a) THEN b ELSE a

Max(a, b) == IF IsNaN(a) \/ IsNaN(b) THEN NaN ELSE IF Lt(a, b) THEN b ELSE a

-----------------------------------------------------------------------------
(* Text of an input element, and its conversion to a number *)

Digits == <<"0", "1", "2", "3", "4", "5", "6", "7", "8", "9">>

IsDigit(c) == \E i \in 1..10 : Digits[i] = c

DigitVal(c) == (CHOOSE i \in 1..10 : Digits[i] = c) - 1

\* The number of leading digits of s.
RECURSIVE DigitRun(_)
DigitRun(s) ==
    IF s # <<>> /\ IsDigit(Head(s)) THEN 1 + DigitRun(Tail(s)) ELSE 0

\* The value of the first k characters of s, all digits, continuing from acc.
RECURSIVE DigitsValue(_, _, _)
DigitsValue(s, k, acc) ==
    IF k = 0 THEN acc ELSE DigitsValue(Tail(s), k - 1, 10 * acc + DigitVal(Head(s)))

RECURSIVE Pow10(_)
Pow10(k) == IF k = 0 THEN 1 ELSE 10 * Pow10(k - 1)

Drop(s, k) == SubSeq(s, k + 1, Len(s))

HasSign(s) == s # <<>> /\ Head(s) \in {"-", "+"}

SignOf(s) == IF s # <<>> /\ Head(s) = "-" THEN -1 ELSE 1

Unsigned(s) == IF HasSign(s) THEN Tail(s) ELSE s

\* parseInt(text): an optional sign and the longest run of decimal digits;
\* NaN when there is none.  What follows the digits is ignored.
parseInt(text) ==
    LET body == Unsigned(text)
        k == DigitRun(body)
    IN  IF k = 0 THEN NaN ELSE Num(SignOf(text) * DigitsValue(body, k, 0))

\* parseFloat(text): an optional sign, digits, an optional point and digits;
\* NaN when there is no digit.  What follows is ignored.
parseFloat(text) ==
    LET body == Unsigned(text)
        k == DigitRun(body)
        rest == Drop(body, k)
        hasPoint == rest # <<>> /\ Head(rest) = "."
        f == IF hasPoint THEN DigitRun(Tail(rest)) ELSE 0
        whole == DigitsValue(body, k, 0)
        all == IF f = 0 THEN whole ELSE DigitsValue(Tail(rest), f, whole)
    IN  IF k + f = 0 THEN NaN ELSE Norm(SignOf(text) * all, Pow10(f))

\* The decimal digits of r/d, 0 <= r < d, at most k of them.
RECURSIVE FracDigits(_, _, _)
FracDigits(r, d, k) ==
    IF r = 0 \/ k = 0 THEN ""
    ELSE ToString((r * 10) \div d) \o FracDigits((r * 10) % d, d, k - 1)

\* The text of a number, as string concatenation ("1 : " + Zc) produces it.
NumStr(a) ==
    IF a = NaN THEN "NaN"
    ELSE IF a = PosInf THEN "Infinity"
    ELSE IF a = NegInf THEN "-Infinity"
    ELSE IF a[2] = 1 THEN ToString(a[1])
    ELSE (IF a[1] < 0 THEN "-" ELSE "") \o ToString(Abs(a[1]) \div a[2]) \o "." \o
         FracDigits(Abs(a[1]) % a[2], a[2], 17)

-----------------------------------------------------------------------------
(* Bounds of the exploration and the inputs the environment may supply *)

\* draw() passes explored: rotationAngle stays within MaxTicks increments.
MaxTicks == 4

\* Animation-frame callbacks that may be registered at once.
MaxPending == 2

\* Pan explored: view.x and view.y stay within MaxPan pixels of the canvas centre.
MaxPan == 1

\* Raw texts the four input elements may hold while the whole page is explored.
RawTexts ==
    [R  |-> {<<"8", "0">>},
     Zp |-> {<<"1", "2">>, <<"2">>, <<"1">>, <<"x">>},
     rp |-> {<<"5">>},
     e  |-> {<<"4">>}]

\* Raw texts they may hold while only the parameter handlers are explored:
\* valid values, the boundaries of the warning (rp = 1.1 R/Zp at R = 40, Zp = 2,
\* rp = 22; e Zp/R = 0.98 at R = 100, Zp = 2, e = 49), zero, negative,
\* fractional and unparsable texts.
WideTexts ==
    [R  |-> {<<"8", "0">>, <<"4", "0">>, <<"1", "0", "0">>, <<"0">>, <<"-", "5">>, <<>>},
     Zp |-> {<<"1", "2">>, <<"2">>, <<"1">>, <<"0">>, <<"2", ".", "9">>, <<"x">>},
     rp |-> {<<"5">>, <<"8">>, <<"2", "2">>, <<"0">>, <<"-", "1">>},
     e  |-> {<<"4">>, <<"2", "0">>, <<"4", "9">>, <<"0">>, <<"-", "1">>}]

Fields == {"R", "Zp", "rp", "e"}

\* Every assignment of one text of S to each input element.
RawInputs(S) == [R : S.R, Zp : S.Zp, rp : S.rp, e : S.e]

Modes == {"STD", "RV"}

\* viewport.clientWidth, viewport.clientHeight
ViewportSizes == {<<800, 600>>}

\* deltaY of a wheel event
WheelDeltas == {-6000}

\* offsetX, offsetY of a wheel event
WheelPoints == {<<0, 0>>}

\* clientX, clientY of a mouse event
MousePoints == {<<0, 0>>, <<1, 1>>}

-----------------------------------------------------------------------------
(* Input handling: updateParams and setMode *)

\* let params = { R: 80, Zp: 12, rp: 5, e: 4 }
InitialParams == [R |-> Num(80), Zp |-> Num(12), rp |-> Num(5), e |-> Num(4)]

\* The four assignments that open updateParams.
readInputs(inp) ==
    [R  |-> parseFloat(inp.R),
     Zp |-> parseInt(inp.Zp),
     rp |-> parseFloat(inp.rp),
     e  |-> parseFloat(inp.e)]

\* const K1 = (params.e * params.Zp) / params.R
eccentricityFactor(p) == Div(Mul(p.e, p.Zp), p.R)

\* ratioText with the lobe count shown in both modes.
ratioTextLobes(mode, p) == "1 : " \o NumStr(Sub(p.Zp, Num(1)))

\* displays.ratio.textContent
ratioText(mode, p) ==
    IF mode = "STD" THEN "1 : " \o NumStr(Sub(p.Zp, Num(1)))
    ELSE "1 : " \o NumStr(p.Zp)

\* displays.dir.textContent (the label's English half)
dirText(mode) == IF mode = "STD" THEN "Opposite" ELSE "Same"

\* warnDisplay with the two conditions joined by && instead of ||.
warnDisplayBoth(p) ==
    IF Gt(p.rp, Mul(Div(p.R, p.Zp), <<11, 10>>)) /\ Gt(eccentricityFactor(p), <<49, 50>>)
    THEN "block"
    ELSE "none"

\* displays.warn.style.display
warnDisplay(p) ==
    IF Gt(p.rp, Mul(Div(p.R, p.Zp), <<11, 10>>)) \/ Gt(eccentricityFactor(p), <<49, 50>>)
    THEN "block"
    ELSE "none"

\* updateParams(): the new params and displays, from the inputs and the mode.
updateParams(inp, mode) ==
    LET p == readInputs(inp)
    IN  [params   |-> p,
         displays |-> [ratio |-> ratioText(mode, p),
                       dir   |-> dirText(mode),
                       warn  |-> warnDisplay(p)]]

\* setMode(mode): the selector, and what its updateParams() call leaves.
setMode(mode, inp) ==
    [kinematics |-> mode,
     update     |-> updateParams(inp, mode)]

-----------------------------------------------------------------------------
(* The view: resetView and the wheel and mouse listeners *)

DefaultScale == <<7, 2>>    \* 3.5

Half(i) == Norm(i, 2)

\* resetView()
resetView(v, cv) ==
    [v EXCEPT !.scale = DefaultScale, !.x = Half(cv.width), !.y = Half(cv.height)]

\* The wheel listener: zoom towards the pointer, the scale kept in [0.5, 20].
onWheel(v, deltaY, mouseX, mouseY) ==
    LET zoomIntensity == <<1, 1000>>
        delta == Mul(Neg(Num(deltaY)), zoomIntensity)
        newScale == Min(Max(<<1, 2>>, Mul(v.scale, Add(Num(1), delta))), Num(20))
        k == Div(newScale, v.scale)
    IN  [v EXCEPT !.x = Sub(Num(mouseX), Mul(Sub(Num(mouseX), v.x), k)),
                  !.y = Sub(Num(mouseY), Mul(Sub(Num(mouseY), v.y), k)),
                  !.scale = newScale]

\* The mousedown listener.
onMouseDown(v, clientX, clientY) ==
    [v EXCEPT !.isDragging = TRUE, !.lastX = clientX, !.lastY = clientY]

\* The mousemove listener.
onMouseMove(v, clientX, clientY) ==
    IF v.isDragging
    THEN [v EXCEPT !.x = Add(v.x, Num(clientX - v.lastX)),
                   !.y = Add(v.y, Num(clientY - v.lastY)),
                   !.lastX = clientX,
                   !.lastY = clientY]
    ELSE v

\* The mouseup listener.
onMouseUp(v) == [v EXCEPT !.isDragging = FALSE]

-----------------------------------------------------------------------------
(* draw(): the kinematics of one pass *)

AngleStep == <<1, 50>>    \* rotationAngle += 0.02

\* coef * Math.cos(arg) or coef * Math.sin(arg), kept as a term: the cosine and
\* sine of a multiple of 0.02 rad are not rational.  fn "one" is the factor 1.
Term(coef, fn, arg) == [coef |-> coef, fn |-> fn, arg |-> arg]

Const(a) == Term(a, "one", Num(0))

\* placementSTD with the disc rotation divided by Zp instead of Zc.
placementSTDByPins(angle, Zp, e) ==
    [pinGroupAngle |-> Num(0),
     discCenter    |-> [x |-> Term(e, "cos", angle), y |-> Term(e, "sin", angle)],
     discRotation  |-> Div(Neg(angle), Zp)]

\* The placement of the branch kinematics === 'STD'.
placementSTD(angle, Zp, e) ==
    LET Zc == Sub(Zp, Num(1))
    IN  [pinGroupAngle |-> Num(0),
         discCenter    |-> [x |-> Term(e, "cos", angle), y |-> Term(e, "sin", angle)],
         discRotation  |-> Div(Neg(angle), Zc)]

\* placementRV with the disc still spinning as in the other mode.
placementRVSpinning(angle, Zp, e) ==
    [pinGroupAngle |-> Div(angle, Zp),
     discCenter    |-> [x |-> Term(e, "cos", angle), y |-> Term(e, "sin", angle)],
     discRotation  |-> Div(Neg(angle), Sub(Zp, Num(1)))]

\* placementRV with the disc centre left at the origin.
placementRVStatic(angle, Zp, e) ==
    [pinGroupAngle |-> Div(angle, Zp),
     discCenter    |-> [x |-> Const(Num(0)), y |-> Const(Num(0))],
     discRotation  |-> Num(0)]

\* The placement of the else branch ('RV').
placementRV(angle, Zp, e) ==
    [pinGroupAngle |-> Div(angle, Zp),
     discCenter    |-> [x |-> Term(e, "cos", angle), y |-> Term(e, "sin", angle)],
     discRotation  |-> Num(0)]

\* pinGroupAngle, discCenter and discRotation as draw() computes them.
placement(mode, angle, p) ==
    IF mode = "STD" THEN placementSTD(angle, p.Zp, p.e) ELSE placementRV(angle, p.Zp, p.e)

\* What draw() leaves: the placement it rendered, the angle advanced, and one
\* more callback registered by requestAnimationFrame(draw).
draw(mode, angle, p, queued) ==
    [frame         |-> [drawn |-> TRUE, at |-> placement(mode, angle, p)],
     rotationAngle |-> Add(angle, AngleStep),
     pending       |-> queued + 1]

\* resize(): the canvas takes the viewport's size, the view is centred, and
\* draw() is called.
resize(v, size, mode, angle, p, queued) ==
    [canvas |-> [width |-> size[1], height |-> size[2]],
     view   |-> [v EXCEPT !.x = Half(size[1]), !.y = Half(size[2])],
     drawn  |-> draw(mode, angle, p, queued)]

-----------------------------------------------------------------------------
(* The mathematical core: getCycloidPoint *)

(* An angle theta is given by the point <<cos theta, sin theta>> of the unit    *)
(* circle, with rational coordinates, so that Math.cos and Math.sin of theta   *)
(* and of Zp * theta (Zp an integer, by complex multiplication) are exact.     *)
(* A result is a number a + b * sqrt(q), kept as [a, b, q] with a, b, q        *)
(* rational; b = 0 and q = 1 when it is rational or NaN.                       *)

Cos(theta) == theta[1]

Sin(theta) == theta[2]

AngleSum(u, v) ==
    <<Sub(Mul(u[1], v[1]), Mul(u[2], v[2])), Add(Mul(u[1], v[2]), Mul(u[2], v[1]))>>

RECURSIVE AngleTimes(_, _)
AngleTimes(n, theta) ==
    IF n = 0 THEN <<Num(1), Num(0)>> ELSE AngleSum(theta, AngleTimes(n - 1, theta))

\* Zp * theta, for Zp an integer or NaN (what parseInt returns).
Multiple(Zp, theta) ==
    IF ~IsFinite(Zp) THEN <<NaN, NaN>>
    ELSE IF Zp[1] >= 0 THEN AngleTimes(Zp[1], theta)
    ELSE LET t == AngleTimes(-Zp[1], theta) IN <<t[1], Neg(t[2])>>

Surd(a, b, q) ==
    IF IsNaN(a) \/ IsNaN(b) \/ IsNaN(q) THEN [a |-> NaN, b |-> Num(0), q |-> Num(1)]
    ELSE IF b = Num(0) THEN [a |-> a, b |-> Num(0), q |-> Num(1)]
    ELSE [a |-> a, b |-> b, q |-> q]

Rat(a) == Surd(a, Num(0), Num(1))

\* The integer square root of n >= 0, searched between lo and hi.
RECURSIVE ISqrtIn(_, _, _)
ISqrtIn(n, lo, hi) ==
    IF lo >= hi THEN lo
    ELSE LET mid == (lo + hi + 1) \div 2
         IN  IF mid * mid <= n THEN ISqrtIn(n, mid, hi) ELSE ISqrtIn(n, lo, mid - 1)

ISqrt(n) == ISqrtIn(n, 0, IF n < 46340 THEN n ELSE 46340)

IsSquare(n) == ISqrt(n) * ISqrt(n) = n

\* Math.sqrt of a rational v >= 0 (or NaN).
Sqrt(v) ==
    IF IsNaN(v) THEN Rat(NaN)
    ELSE IF IsSquare(v[1]) /\ IsSquare(v[2]) THEN Rat(<<ISqrt(v[1]), ISqrt(v[2])>>)
    ELSE Surd(Num(0), Num(1), v)

\* Math.sqrt(dx*dx + dy*dy); the square root of a single square is taken
\* directly, which keeps the integers small near a cusp.
Hypot(dx, dy) ==
    IF dx = Num(0) THEN Rat(AbsNum(dy))
    ELSE IF dy = Num(0) THEN Rat(AbsNum(dx))
    ELSE Sqrt(Add(Mul(dx, dx), Mul(dy, dy)))

Epsilon == <<1, 1000000>>    \* 1e-6

\* len < bound, for a square root len and a rational bound in (0, 1).
SurdLt(len, bound) ==
    IF len.b = Num(0) THEN Lt(len.a, bound)
    ELSE IF Le(bound, len.q) THEN FALSE
    ELSE Lt(Div(len.q, bound), bound)

\* r / len, for a rational r and a square root len.
SurdDiv(r, len) ==
    IF len.b = Num(0) THEN Rat(Div(r, len.a))
    ELSE Surd(Num(0), Div(r, Mul(len.b, len.q)), len.q)

\* r * s, for a rational r.
SurdScale(r, s) == Surd(Mul(r, s.a), Mul(r, s.b), s.q)

\* r + s, for a rational r.
SurdShift(r, s) == Surd(Add(r, s.a), s.b, s.q)

\* The tangent (dxdt, dydt) of the base curve at theta.
tangent(theta, R, Zp, e) ==
    LET zt == Multiple(Zp, theta)
    IN  [dx |-> Add(Mul(Neg(R), Sin(theta)), Mul(Mul(e, Zp), Sin(zt))),
         dy |-> Sub(Mul(R, Cos(theta)), Mul(Mul(e, Zp), Cos(zt)))]

\* The point (x0, y0) of the base curve at theta.
basePoint(theta, R, Zp, e) ==
    LET zt == Multiple(Zp, theta)
    IN  [x |-> Sub(Mul(R, Cos(theta)), Mul(e, Cos(zt))),
         y |-> Sub(Mul(R, Sin(theta)), Mul(e, Sin(zt)))]

\* degenerate with the test len === 0 instead of len < 1e-6.
degenerateExactZero(len) == len = Rat(Num(0))

\* const len; if (len < 1e-6): whether the unoffset point is returned.
degenerate(len) == SurdLt(len, Epsilon)

\* offsetPoint with the normal pointing outward: nx = dydt / len, ny = -dxdt / len.
offsetPointOutward(base, t, len, rp) ==
    [x |-> SurdShift(base.x, SurdScale(rp, SurdDiv(t.dy, len))),
     y |-> SurdShift(base.y, SurdScale(rp, SurdDiv(Neg(t.dx), len)))]

\* The offset rp * (nx, ny) with nx = -dydt / len, ny = dxdt / len.
offsetPoint(base, t, len, rp) ==
    [x |-> SurdShift(base.x, SurdScale(rp, SurdDiv(Neg(t.dy), len))),
     y |-> SurdShift(base.y, SurdScale(rp, SurdDiv(t.dx, len)))]

getCycloidPoint(theta, R, Zp, rp, e) ==
    LET base == basePoint(theta, R, Zp, e)
        t == tangent(theta, R, Zp, e)
        len == Hypot(t.dx, t.dy)
    IN  IF degenerate(len) THEN [x |-> Rat(base.x), y |-> Rat(base.y)]
        ELSE offsetPoint(base, t, len, rp)

\* Angles sampled: the quarter turns (i = 0, 900, 1800, 2700 of the 3600 steps
\* of draw()) and two angles off the axes.
Thetas ==
    {<<Num(1), Num(0)>>, <<Num(0), Num(1)>>, <<Num(-1), Num(0)>>, <<Num(0), Num(-1)>>,
     <<<<3, 5>>, <<4, 5>>>>, <<<<-4, 5>>, <<3, 5>>>>}

\* Arguments sampled: a grid that holds circles (e = 0), cusps (R = e Zp, at
\* R = 3, Zp = 3 and R = 5, Zp = 5, e = 1) and looped and plain profiles ...
GridProbes ==
    [theta : Thetas,
     R     : {Num(5), Num(3)},
     Zp    : {Num(2), Num(3), Num(5)},
     rp    : {Num(0), Num(1), Num(7)},
     e     : {Num(0), Num(1)}]

\* ... and, at theta = 0, tangents of length 2e-7 (below the epsilon), exactly
\* 1e-6 and 2e-6 (not below it): R = 1, Zp = 2, e = 0.4999999, 0.4999995, 0.499999.
NearCuspProbes ==
    [theta : {<<Num(1), Num(0)>>},
     R     : {Num(1)},
     Zp    : {Num(2)},
     rp    : {Num(1)},
     e     : {<<4999999, 10000000>>, <<999999, 2000000>>, <<499999, 1000000>>}]

Probes == GridProbes \cup NearCuspProbes

-----------------------------------------------------------------------------
(* The page as a state machine *)

NoFrame == [drawn |-> FALSE,
            at    |-> [pinGroupAngle |-> Num(0),
                       discCenter    |-> [x |-> Const(Num(0)), y |-> Const(Num(0))],
                       discRotation  |-> Num(0)]]

NoProbe == [theta |-> <<Num(1), Num(0)>>,
            R |-> Num(0), Zp |-> Num(0), rp |-> Num(0), e |-> Num(0)]

NoSample == [taken |-> FALSE, point |-> [x |-> Rat(Num(0)), y |-> Rat(Num(0))]]

MaxAngle == Mul(Num(MaxTicks), AngleStep)

\* The state the declarations of the script leave, before its last three
\* statements run; the inputs hold what the markup or the browser put there.
InitOver(S) ==
    /\ pc = "load"
    /\ inputs \in RawInputs(S)
    /\ params = InitialParams
    /\ kinematics = "STD"
    /\ rotationAngle = Num(0)
    /\ view = [scale |-> DefaultScale, x |-> Num(0), y |-> Num(0),
               isDragging |-> FALSE, lastX |-> 0, lastY |-> 0]
    /\ canvas = [width |-> 300, height |-> 150]
    /\ displays = [ratio |-> "", dir |-> "", warn |-> ""]
    /\ pending = 0
    /\ frameQueue = 0
    /\ frame = NoFrame
    /\ probe = NoProbe
    /\ sample = NoSample

\* The end of the script: resize(); updateParams(); resetView();
Startup ==
    /\ pc = "load"
    /\ \E size \in ViewportSizes :
         LET r == resize(view, size, kinematics, rotationAngle, params, pending)
             u == updateParams(inputs, kinematics)
         IN  /\ canvas' = r.canvas
             /\ frame' = r.drawn.frame
             /\ rotationAngle' = r.drawn.rotationAngle
             /\ pending' = r.drawn.pending
             /\ params' = u.params
             /\ displays' = u.displays
             /\ view' = resetView(r.view, r.canvas)
    /\ pc' = "run"
    /\ UNCHANGED <<inputs, kinematics, frameQueue, probe, sample>>

\* The browser is idle between tasks: the script has run and no animation
\* frame is in progress.
Idle == pc = "run" /\ frameQueue = 0

\* An 'input' event on one of the four elements: its value has changed to a
\* text of S and the listener updateParams runs.
InputOver(S) ==
    /\ Idle
    /\ \E f \in Fields : \E text \in S[f] \ {inputs[f]} :
         LET raw == [inputs EXCEPT ![f] = text]
             u == updateParams(raw, kinematics)
         IN  /\ inputs' = raw
             /\ params' = u.params
             /\ displays' = u.displays
    /\ UNCHANGED <<pc, kinematics, rotationAngle, view, canvas, pending,
                   frameQueue, frame, probe, sample>>

InputEvent == InputOver(RawTexts)

WideInputEvent == InputOver(WideTexts)

\* A click on a mode button: setMode('STD') or setMode('RV').
SetModeClick ==
    /\ Idle
    /\ \E mode \in Modes :
         LET m == setMode(mode, inputs)
         IN  /\ kinematics' = m.kinematics
             /\ params' = m.update.params
             /\ displays' = m.update.displays
    /\ UNCHANGED <<pc, inputs, rotationAngle, view, canvas, pending, frameQueue,
                   frame, probe, sample>>

\* A 'resize' event of the window.
ResizeEvent ==
    /\ Idle
    /\ pending < MaxPending
    /\ Le(Add(rotationAngle, AngleStep), MaxAngle)
    /\ \E size \in ViewportSizes :
         LET r == resize(view, size, kinematics, rotationAngle, params, pending)
         IN  /\ canvas' = r.canvas
             /\ view' = r.view
             /\ frame' = r.drawn.frame
             /\ rotationAngle' = r.drawn.rotationAngle
             /\ pending' = r.drawn.pending
    /\ UNCHANGED <<pc, inputs, params, kinematics, displays, frameQueue,
                   probe, sample>>

\* A click on the reset-view control.
ResetViewClick ==
    /\ Idle
    /\ view' = resetView(view, canvas)
    /\ UNCHANGED <<pc, inputs, params, kinematics, rotationAngle, canvas, displays,
                   pending, frameQueue, frame, probe, sample>>

WheelEvent ==
    /\ Idle
    /\ \E deltaY \in WheelDeltas, at \in WheelPoints :
         view' = onWheel(view, deltaY, at[1], at[2])
    /\ UNCHANGED <<pc, inputs, params, kinematics, rotationAngle, canvas, displays,
                   pending, frameQueue, frame, probe, sample>>

MouseDownEvent ==
    /\ Idle
    /\ \E at \in MousePoints : view' = onMouseDown(view, at[1], at[2])
    /\ UNCHANGED <<pc, inputs, params, kinematics, rotationAngle, canvas, displays,
                   pending, frameQueue, frame, probe, sample>>

MouseMoveEvent ==
    /\ Idle
    /\ \E at \in MousePoints :
         LET v == onMouseMove(view, at[1], at[2])
         IN  /\ Le(AbsNum(Sub(v.x, Half(canvas.width))), Num(MaxPan))
             /\ Le(AbsNum(Sub(v.y, Half(canvas.height))), Num(MaxPan))
             /\ view' = v
    /\ UNCHANGED <<pc, inputs, params, kinematics, rotationAngle, canvas, displays,
                   pending, frameQueue, frame, probe, sample>>

MouseUpEvent ==
    /\ Idle
    /\ view' = onMouseUp(view)
    /\ UNCHANGED <<pc, inputs, params, kinematics, rotationAngle, canvas, displays,
                   pending, frameQueue, frame, probe, sample>>

\* A display frame begins: the browser takes the callbacks registered so far
\* and will run each of them once; callbacks registered from now on wait for
\* the next frame.
BeginFrame ==
    /\ Idle
    /\ pending > 0
    /\ Le(Add(rotationAngle, Mul(Num(pending), AngleStep)), MaxAngle)
    /\ frameQueue' = pending
    /\ pending' = 0
    /\ UNCHANGED <<pc, inputs, params, kinematics, rotationAngle, view, canvas,
                   displays, frame, probe, sample>>

\* The browser runs one registered callback: draw().
DrawTick ==
    /\ pc = "run"
    /\ frameQueue > 0
    /\ LET d == draw(kinematics, rotationAngle, params, pending)
       IN  /\ frame' = d.frame
           /\ rotationAngle' = d.rotationAngle
           /\ pending' = d.pending
    /\ frameQueue' = frameQueue - 1
    /\ UNCHANGED <<pc, inputs, params, kinematics, view, canvas, displays,
                   probe, sample>>

Init == InitOver(RawTexts)

ParamInit == InitOver(WideTexts)

Next ==
    \/ Startup
    \/ InputEvent
    \/ SetModeClick
    \/ ResizeEvent
    \/ ResetViewClick
    \/ WheelEvent
    \/ MouseDownEvent
    \/ MouseMoveEvent
    \/ MouseUpEvent
    \/ BeginFrame
    \/ DrawTick

Spec == Init /\ [][Next]_vars

\* The parameter handlers alone, over the wide texts.
ParamNext ==
    \/ Startup
    \/ WideInputEvent
    \/ SetModeClick

ParamSpec == ParamInit /\ [][ParamNext]_vars

-----------------------------------------------------------------------------
(* getCycloidPoint applied to sampled arguments *)

ProfileInit ==
    /\ pc = "load"
    /\ inputs = [R |-> <<"8", "0">>, Zp |-> <<"1", "2">>, rp |-> <<"5">>, e |-> <<"4">>]
    /\ params = InitialParams
    /\ kinematics = "STD"
    /\ rotationAngle = Num(0)
    /\ view = [scale |-> DefaultScale, x |-> Num(0), y |-> Num(0),
               isDragging |-> FALSE, lastX |-> 0, lastY |-> 0]
    /\ canvas = [width |-> 300, height |-> 150]
    /\ displays = [ratio |-> "", dir |-> "", warn |-> ""]
    /\ pending = 0
    /\ frameQueue = 0
    /\ frame = NoFrame
    /\ probe \in Probes
    /\ sample = NoSample

\* const p = getCycloidPoint(theta, R, Zp, rp, e)
SamplePoint ==
    /\ ~sample.taken
    /\ sample' = [taken |-> TRUE,
                  point |-> getCycloidPoint(probe.theta, probe.R, probe.Zp,
                                            probe.rp, probe.e)]
    /\ UNCHANGED <<pageVars, probe>>

ProfileNext == SamplePoint

ProfileSpec == ProfileInit /\ [][ProfileNext]_vars

-----------------------------------------------------------------------------
(* Properties *)

\* R > 0, Zp >= 2, rp >= 0, e >= 0, all of them numbers.
ValidParams(p) ==
    /\ IsFinite(p.R) /\ IsFinite(p.Zp) /\ IsFinite(p.rp) /\ IsFinite(p.e)
    /\ Lt(Num(0), p.R)
    /\ Le(Num(2), p.Zp)
    /\ Le(Num(0), p.rp)
    /\ Le(Num(0), p.e)

\* A step in which a draw() pass ran: only draw() assigns rotationAngle.
DrawPass == rotationAngle' # rotationAngle

\* (k cos t, k sin t), the point at angle t of the circle of radius k.
Orbit(k, t) == [x |-> Term(k, "cos", t), y |-> Term(k, "sin", t)]

\* The distance from the origin of a point whose coordinates are terms.
Radius(c) ==
    IF c.x.fn = "cos" /\ c.y.fn = "sin" /\ c.x.arg = c.y.arg /\ c.x.coef = c.y.coef
    THEN AbsNum(c.x.coef)
    ELSE IF c.x = Const(Num(0)) /\ c.y = Const(Num(0)) THEN Num(0)
    ELSE NaN

\* C1: once the script has run, the ratio and direction shown are those of the
\* current mode and pin count, 1 : Zp - 1 and opposite in STD, 1 : Zp and same
\* in RV (1 : 11 and 1 : 12 for Zp = 12), whatever rotationAngle is.
C1_DisplaysMatchMode ==
    pc = "run" =>
        /\ displays.ratio =
               "1 : " \o (IF IsNaN(params.Zp) THEN "NaN"
                          ELSE ToString(IF kinematics = "STD" THEN params.Zp[1] - 1
                                        ELSE params.Zp[1]))
        /\ displays.dir = (IF kinematics = "STD" THEN "Opposite" ELSE "Same")
        /\ params.Zp = Num(12) =>
               displays.ratio = (IF kinematics = "STD" THEN "1 : 11" ELSE "1 : 12")

\* In RV with Zp = 12, after several draw passes, 1 : 12 and same sense are shown.
C1_Witness ==
    /\ pc = "run"
    /\ kinematics = "RV"
    /\ params.Zp = Num(12)
    /\ displays.ratio = "1 : 12"
    /\ displays.dir = "Same"
    /\ Lt(Mul(Num(2), AngleStep), rotationAngle)

\* C2: for valid parameters the warning is shown exactly when
\* rp > 1.1 (R/Zp) or e Zp / R > 0.98 (stated without division: R and Zp are
\* positive), hidden for R = 80, Zp = 12, rp = 5, e = 4 and shown with e = 20,
\* in either mode.
C2_UndercutWarning ==
    pc = "run" /\ ValidParams(params) =>
        LET pinTooLarge == Gt(Mul(Mul(params.rp, params.Zp), Num(10)),
                              Mul(Num(11), params.R))
            nearLimit == Gt(Mul(Mul(params.e, params.Zp), Num(100)),
                            Mul(Num(98), params.R))
        IN  /\ displays.warn = (IF pinTooLarge \/ nearLimit THEN "block" ELSE "none")
            /\ params = [R |-> Num(80), Zp |-> Num(12), rp |-> Num(5), e |-> Num(4)]
                   => displays.warn = "none"
            /\ params = [R |-> Num(80), Zp |-> Num(12), rp |-> Num(5), e |-> Num(20)]
                   => displays.warn = "block"

\* In RV, R = 80, Zp = 12, rp = 5, e = 20: the warning is shown.
C2_Witness ==
    /\ pc = "run"
    /\ kinematics = "RV"
    /\ params = [R |-> Num(80), Zp |-> Num(12), rp |-> Num(5), e |-> Num(20)]
    /\ displays.warn = "block"

\* C3: the params a draw callback is about to read are valid: Zp >= 2, R > 0,
\* rp >= 0, e >= 0.
C3_DrawReadsValidParams == frameQueue > 0 => ValidParams(params)

\* C4: at most one draw callback is registered or running at any time.
C4_OneCallbackPending == pending + frameQueue <= 1

\* The closed form of each mode.
ModeFormula(mode, angle, p) ==
    IF mode = "STD"
    THEN [pinGroupAngle |-> Num(0),
          discCenter    |-> Orbit(p.e, angle),
          discRotation  |-> Neg(Div(angle, Sub(p.Zp, Num(1))))]
    ELSE [pinGroupAngle |-> Div(angle, p.Zp),
          discCenter    |-> Orbit(p.e, angle),
          discRotation  |-> Num(0)]

\* C5: a step that changes the mode changes nothing else but the displays, and
\* the placement a draw pass renders is the formula of the mode then selected,
\* applied to the angle and parameters then current.
C5_ModeSwitchCarriesNothing ==
    [][/\ kinematics' # kinematics =>
              /\ rotationAngle' = rotationAngle
              /\ params' = params
              /\ inputs' = inputs
              /\ view' = view
              /\ canvas' = canvas
              /\ pending' = pending
              /\ frameQueue' = frameQueue
              /\ frame' = frame
       /\ DrawPass => frame'.at = ModeFormula(kinematics, rotationAngle, params)]_vars

\* A pass rendered in RV, the mode switched to after the first pass in STD: the
\* disc does not spin and the pins have turned.
C5_Witness ==
    /\ kinematics = "RV"
    /\ frame.drawn
    /\ frame.at.discRotation = Num(0)
    /\ frame.at.pinGroupAngle = Div(Sub(rotationAngle, AngleStep), Num(12))
    /\ Lt(Num(0), frame.at.pinGroupAngle)

\* C6: once the script has run, rotationAngle changes only in a draw callback
\* of an animation frame, and then by the fixed increment.
C6_OnlyTicksAdvance ==
    [][pc = "run" /\ DrawPass =>
           /\ frameQueue > 0
           /\ rotationAngle' = Add(rotationAngle, AngleStep)]_vars

\* C7: for Zp >= 2 a draw pass renders, in STD, pinGroupAngle = 0 and a
\* discRotation that is opposite to the angle and Zc times smaller, and in RV,
\* discRotation = 0 and a pinGroupAngle of the angle's sense, Zp times smaller.
C7_PlacementClosedForm ==
    [][DrawPass /\ IsFinite(params.Zp) /\ Le(Num(2), params.Zp) =>
           /\ kinematics = "STD" =>
                  /\ frame'.at.pinGroupAngle = Num(0)
                  /\ Mul(frame'.at.discRotation, Sub(params.Zp, Num(1)))
                         = Neg(rotationAngle)
           /\ kinematics = "RV" =>
                  /\ frame'.at.discRotation = Num(0)
                  /\ Mul(frame'.at.pinGroupAngle, params.Zp) = rotationAngle]_vars

\* A pass rendered in STD with Zp = 12 at angle 0.04: the disc at -0.04/11.
C7_Witness ==
    /\ kinematics = "STD"
    /\ params.Zp = Num(12)
    /\ frame.drawn
    /\ rotationAngle = Mul(Num(3), AngleStep)
    /\ frame.at.discRotation = <<-1, 275>>

BelowEpsilon(t) ==
    LET u == Div(t.dx, Epsilon)
        v == Div(t.dy, Epsilon)
    IN  /\ Lt(AbsNum(u), Num(1))
        /\ Lt(AbsNum(v), Num(1))
        /\ Lt(Add(Mul(u, u), Mul(v, v)), Num(1))

\* s * t for two numbers of the same square root.
SurdTimes(s, t) ==
    LET q == IF s.b # Num(0) THEN s.q ELSE t.q
    IN  Surd(Add(Mul(s.a, t.a), Mul(Mul(s.b, t.b), q)),
             Add(Mul(s.a, t.b), Mul(s.b, t.a)), q)

\* C9: where the tangent is shorter than 1e-6 the point returned is the base
\* point (x0, y0), finite, whatever rp; elsewhere L (point - base) =
\* rp (-dy, dx) with L the tangent's length.
C9_DegenerateFallback ==
    sample.taken =>
        LET base == basePoint(probe.theta, probe.R, probe.Zp, probe.e)
            t == tangent(probe.theta, probe.R, probe.Zp, probe.e)
            L == Hypot(t.dx, t.dy)
        IN  IF BelowEpsilon(t)
            THEN /\ sample.point = [x |-> Rat(base.x), y |-> Rat(base.y)]
                 /\ IsFinite(sample.point.x.a)
                 /\ IsFinite(sample.point.y.a)
            ELSE /\ SurdTimes(L, SurdShift(Neg(base.x), sample.point.x))
                        = Rat(Mul(probe.rp, Neg(t.dy)))
                 /\ SurdTimes(L, SurdShift(Neg(base.y), sample.point.y))
                        = Rat(Mul(probe.rp, t.dx))

\* A cusp off theta = 0 (R = 5, Zp = 5, e = 1 at a quarter turn) with rp = 7:
\* the base point (0, 4) is returned.
C9_Witness ==
    /\ sample.taken
    /\ probe = [theta |-> <<Num(0), Num(1)>>, R |-> Num(5), Zp |-> Num(5),
                rp |-> Num(7), e |-> Num(1)]
    /\ BelowEpsilon(tangent(probe.theta, probe.R, probe.Zp, probe.e))
    /\ sample.point = [x |-> Rat(Num(0)), y |-> Rat(Num(4))]

====
